---- MODULE Spec2Model ----
(***************************************************************************)
(* Weekly replanting scheduler of plantlab-manager (PlanningEngine).       *)
(*                                                                         *)
(* Strings are sequences of one-character strings, so that str.upper()     *)
(* and the substring test `in` are computed and not assumed.  A nullable   *)
(* value (SQL NULL / None / NaN) is the empty tuple None, a present value  *)
(* v is the one-element tuple Some(v).                                     *)
(***************************************************************************)
EXTENDS Integers, Sequences, FiniteSets, TLC

VARIABLES
    engine,      \* the PlanningEngine object's fields, as set by __init__
    thresholds,  \* the threshold_brahy / threshold_other arguments of prepare_data
    snapshot,    \* the caller's input frame (one record per row)
    df,          \* the prepared frame handed to create_weekly_schedule
    pc,          \* position of the run
    strains,     \* strains_gen / strains_i : the ordered strain groups of each pool
    todo,        \* the iterations of the two placement loops still to run
    capacities,  \* capacities[pool][<<day, slot>>] : remaining capacity
    schedule,    \* schedule[pool][<<day, slot>>] : the rows placed in the cell
    planned,     \* the planned list
    backlog,     \* the backlog list
    attempts,    \* history: index labels of the rows in the order they were attempted
    stats,       \* the stats dict of the result
    ties,        \* how the build's sort routine orders rows with equal keys
    previous,    \* the result of the run before this one, None in a first run
    allow_split, \* the allow_split argument of create_weekly_schedule
    comparisons, \* history: comparisons[pool] counts the cell tests of the scan loop
    other        \* the local variables of a second call running on the same engine

vars == <<engine, thresholds, snapshot, df, pc, strains, todo, capacities,
          schedule, planned, backlog, attempts, stats, ties, previous,
          allow_split, comparisons, other>>

(***************************************************************************)
(* Nullable values and Python string operations                            *)
(***************************************************************************)
None == <<>>
Some(v) == <<v>>
IsNA(x) == x = None
Val(x) == x[1]

LowerLetters == <<"a","b","c","d","e","f","g","h","i","j","k","l","m",
                  "n","o","p","q","r","s","t","u","v","w","x","y","z">>
UpperLetters == <<"A","B","C","D","E","F","G","H","I","J","K","L","M",
                  "N","O","P","Q","R","S","T","U","V","W","X","Y","Z">>

\* str.upper() on one character: lower-case letters change, all else is kept
UpperChar(c) ==
    IF \E i \in 1..Len(LowerLetters) : LowerLetters[i] = c
    THEN UpperLetters[CHOOSE i \in 1..Len(LowerLetters) : LowerLetters[i] = c]
    ELSE c

Upper(s) == [i \in 1..Len(s) |-> UpperChar(s[i])]

\* str(x) of a nullable string: a NULL read from the database is None and
\* prints as 'None' (a NaN would print as 'nan'; neither holds a marker,
\* a medium or a strain name, so the two behave alike below)
Str(x) == IF IsNA(x) THEN <<"N","o","n","e">> ELSE Val(x)

\* Python's `sub in s`
Contains(s, sub) ==
    \E i \in 1..(Len(s) - Len(sub) + 1) : SubSeq(s, i, i + Len(sub) - 1) = sub

\* code points order the characters the model uses: '+' < digits < A-Z < a-z
CodePoints == <<"+","0","1","2","3","4","5","6","7","8","9">>
              \o UpperLetters \o LowerLetters
Ord(c) == CHOOSE i \in 1..Len(CodePoints) : CodePoints[i] = c

\* Python's s < t on strings (lexicographic by code point)
RECURSIVE StrLess(_, _)
StrLess(s, t) ==
    IF t = <<>> THEN FALSE
    ELSE IF s = <<>> THEN TRUE
    ELSE IF Ord(s[1]) # Ord(t[1]) THEN Ord(s[1]) < Ord(t[1])
    ELSE StrLess(Tail(s), Tail(t))

(***************************************************************************)
(* Class constants                                                         *)
(***************************************************************************)
ELIGIBLE_MEDIUMS_UpperI ==
    {<<"X">>, <<"X","M">>, <<"R","G">>, <<"X","S">>, <<"E">>, <<"E","+">>, <<"I">>}

ELIGIBLE_MEDIUMS ==
    {<<"X">>, <<"X","M">>, <<"R","G">>, <<"X","S">>, <<"E">>, <<"E","+">>, <<"i">>}

POOL_I_MEDIUMS == {<<"X","M">>, <<"i">>}

POOL_GEN_MEDIUMS == {<<"X">>, <<"R","G">>, <<"X","S">>, <<"E">>, <<"E","+">>}

BRAHY == <<"B","R","A","H","Y">>
BRAHY_MEDIUMS == {<<"X">>, <<"X","M">>, <<"E">>, <<"E","+">>}
CHF == <<"C","H","F">>
FROID == <<"F","R","O","I","D">>

ChambreFroide == <<"Chambre froide">>
MilieuNonEligible == <<"Milieu non eligible">>
AgeInconnu == <<"Age inconnu">>
\* f"Trop jeune ({age_weeks}sem < {threshold}sem)"
TropJeune(age_weeks, threshold) == <<"Trop jeune", age_weeks, threshold>>

weekdays == <<"Lundi", "Mardi", "Mercredi", "Jeudi", "Vendredi">>
slots == <<"Matin", "Apres-midi">>

\* the ordered list of cells: lundi matin, lundi aprem, mardi matin, ...
time_slots ==
    [i \in 1..(Len(weekdays) * Len(slots)) |->
        <<weekdays[((i - 1) \div Len(slots)) + 1], slots[((i - 1) % Len(slots)) + 1]>>]

Cells == {time_slots[i] : i \in 1..Len(time_slots)}
Pools == {"pool_gen", "pool_i"}

(***************************************************************************)
(* __init__                                                                *)
(***************************************************************************)
HalfDayCapacityOfWholeJars(nb_workers, jars_per_day_per_worker) ==
    nb_workers * (jars_per_day_per_worker \div 2)

\* int(nb_workers * (jars_per_day_per_worker / 2)): the product is a multiple
\* of one half and int() truncates it
HalfDayCapacity(nb_workers, jars_per_day_per_worker) ==
    (nb_workers * jars_per_day_per_worker) \div 2

NewEngine(nb_workers_gen, nb_workers_i, jars_per_day_per_worker) ==
    [nb_workers_gen |-> nb_workers_gen,
     nb_workers_i |-> nb_workers_i,
     jars_per_day_per_worker |-> jars_per_day_per_worker,
     cap_gen_half_day |-> HalfDayCapacity(nb_workers_gen, jars_per_day_per_worker),
     cap_i_half_day |-> HalfDayCapacity(nb_workers_i, jars_per_day_per_worker)]

(***************************************************************************)
(* is_eligible, assign_pool, prepare_data                                  *)
(***************************************************************************)
SelectThresholdAnyMedium(strain, milieu, threshold_brahy, threshold_other) ==
    IF strain = BRAHY THEN threshold_brahy ELSE threshold_other

SelectThreshold(strain, milieu, threshold_brahy, threshold_other) ==
    IF strain = BRAHY /\ milieu \in BRAHY_MEDIUMS
    THEN threshold_brahy
    ELSE threshold_other

IsEligibleMediumFirst(row, threshold_brahy, threshold_other) ==
    LET chambre == Upper(Str(row.chambre))
        milieu == Upper(Str(row.medium_code))
        strain == Upper(Str(row.strain_code))
    IN  IF milieu \notin ELIGIBLE_MEDIUMS
        THEN [ok |-> FALSE, reason |-> MilieuNonEligible]
        ELSE IF Contains(chambre, CHF) \/ Contains(chambre, FROID)
        THEN [ok |-> FALSE, reason |-> ChambreFroide]
        ELSE IF IsNA(row.age_weeks)
        THEN [ok |-> FALSE, reason |-> AgeInconnu]
        ELSE LET threshold == SelectThreshold(strain, milieu,
                                              threshold_brahy, threshold_other)
             IN  IF Val(row.age_weeks) >= threshold
                 THEN [ok |-> TRUE, reason |-> None]
                 ELSE [ok |-> FALSE,
                       reason |-> TropJeune(Val(row.age_weeks), threshold)]

IsEligible(row, threshold_brahy, threshold_other) ==
    LET chambre == Upper(Str(row.chambre))
        milieu == Upper(Str(row.medium_code))
        strain == Upper(Str(row.strain_code))
    IN  IF Contains(chambre, CHF) \/ Contains(chambre, FROID)
        THEN [ok |-> FALSE, reason |-> ChambreFroide]
        ELSE IF milieu \notin ELIGIBLE_MEDIUMS
        THEN [ok |-> FALSE, reason |-> MilieuNonEligible]
        ELSE IF IsNA(row.age_weeks)
        THEN [ok |-> FALSE, reason |-> AgeInconnu]
        ELSE LET threshold == SelectThreshold(strain, milieu,
                                              threshold_brahy, threshold_other)
             IN  IF Val(row.age_weeks) >= threshold
                 THEN [ok |-> TRUE, reason |-> None]
                 ELSE [ok |-> FALSE,
                       reason |-> TropJeune(Val(row.age_weeks), threshold)]

AssignPool(medium) ==
    LET milieu == Upper(Str(medium))
    IN  IF milieu \in POOL_I_MEDIUMS THEN Some("pool_i")
        ELSE IF milieu \in POOL_GEN_MEDIUMS THEN Some("pool_gen")
        ELSE None

\* One row of prepare_data's result.  The frame has the nb_weeks and total_jars
\* columns (the page's query selects both), so age_weeks = nb_weeks and
\* jars = total_jars.fillna(0).
PrepareRow(raw, i, threshold_brahy, threshold_other) ==
    LET aged == [strain_code |-> raw.strain_code,
                 medium_code |-> raw.medium_code,
                 chambre |-> raw.chambre,
                 age_weeks |-> raw.nb_weeks,
                 jars |-> IF IsNA(raw.total_jars) THEN 0 ELSE Val(raw.total_jars)]
        e == IsEligible(aged, threshold_brahy, threshold_other)
    IN  [idx |-> i,
         strain_code |-> aged.strain_code,
         medium_code |-> aged.medium_code,
         chambre |-> aged.chambre,
         age_weeks |-> aged.age_weeks,
         jars |-> aged.jars,
         is_eligible |-> e.ok,
         ineligibility_reason |-> e.reason,
         pool |-> AssignPool(aged.medium_code)]

PrepareFrame(frame, threshold_brahy, threshold_other) ==
    [i \in 1..Len(frame) |-> PrepareRow(frame[i], i, threshold_brahy, threshold_other)]

(***************************************************************************)
(* create_weekly_schedule: filtering and group_by_strain                   *)
(***************************************************************************)
\* df[cond]: the rows satisfying cond, in frame order
Eligible(frame) ==
    LET keep(r) == r.is_eligible
    IN  SelectSeq(frame, keep)

PoolItems(frame, pool_name) ==
    LET keep(r) == r.pool = Some(pool_name)
    IN  SelectSeq(Eligible(frame), keep)

RECURSIVE SumJars(_)
SumJars(rows) == IF rows = <<>> THEN 0 ELSE Head(rows).jars + SumJars(Tail(rows))

RECURSIVE SumAge(_)
SumAge(rows) ==
    IF rows = <<>> THEN 0 ELSE Val(Head(rows).age_weeks) + SumAge(Tail(rows))

\* the group keys of groupby('strain_code'): rows whose key is null are left
\* out (dropna=True is the default) and the keys come sorted (sort=True)
GroupKeySet(items) ==
    {Val(items[i].strain_code) :
        i \in {j \in 1..Len(items) : ~IsNA(items[j].strain_code)}}

RECURSIVE SortedKeys(_)
SortedKeys(S) ==
    IF S = {} THEN <<>>
    ELSE LET m == CHOOSE x \in S : \A y \in S \ {x} : StrLess(x, y)
         IN  <<m>> \o SortedKeys(S \ {m})

\* a mean is kept as the exact fraction sum / n
MeanLess(a, b) == a.sum * b.n < b.sum * a.n

MeanGreater(a, b) == a.sum * b.n > b.sum * a.n

\* sort_values(..., ascending=False) sorts with kind='quicksort', which is not
\* a stable sort: the row at position i goes after every row with a greater
\* key, and the order among equal keys is the sort routine's.  It is the same
\* in every sort of one build: "kept" leaves equal keys in the order they had
\* (numpy's insertion sort of short arrays), "reversed" turns them around.
TieOrders == {"kept", "reversed"}

RankDesc(keys, i) ==
    Cardinality({j \in 1..Len(keys) :
        \/ MeanGreater(keys[j], keys[i])
        \/ /\ ~MeanGreater(keys[i], keys[j])
           /\ IF ties = "kept" THEN j < i ELSE j > i}) + 1

SortDesc(rows, keys) ==
    [p \in 1..Len(rows) |-> rows[CHOOSE i \in 1..Len(rows) : RankDesc(keys, i) = p]]

StrainItemsUnsorted(items, strain_code) ==
    LET keep(r) == r.strain_code = Some(strain_code)
    IN  SelectSeq(items, keep)

StrainItems(items, strain_code) ==
    LET keep(r) == r.strain_code = Some(strain_code)
        mine == SelectSeq(items, keep)
    IN  SortDesc(mine, [i \in 1..Len(mine) |->
                            [sum |-> Val(mine[i].age_weeks), n |-> 1]])

GroupByStrain(items) ==
    LET keys == SortedKeys(GroupKeySet(items))
        agg == [k \in 1..Len(keys) |->
                   LET keep(r) == r.strain_code = Some(keys[k])
                       rows == SelectSeq(items, keep)
                   IN  [strain_code |-> keys[k],
                        age_weeks |-> [sum |-> SumAge(rows), n |-> Len(rows)],
                        jars |-> SumJars(rows)]]
        strain_groups == SortDesc(agg, [k \in 1..Len(agg) |-> agg[k].age_weeks])
    IN  [g \in 1..Len(strain_groups) |->
            [strain |-> strain_groups[g].strain_code,
             avg_age |-> strain_groups[g].age_weeks,
             total_jars |-> strain_groups[g].jars,
             items |-> StrainItems(items, strain_groups[g].strain_code)]]

\* the iterations of `for strain_group in ...: for idx, item in items_df.iterrows()`
RECURSIVE GroupIterations(_, _)
GroupIterations(groups, pool_name) ==
    IF groups = <<>> THEN <<>>
    ELSE [k \in 1..Len(Head(groups).items) |->
             [pool |-> pool_name, strain |-> Head(groups).strain,
              item |-> Head(groups).items[k]]]
         \o GroupIterations(Tail(groups), pool_name)

(***************************************************************************)
(* place_strain_group: one item                                            *)
(***************************************************************************)
FitsAlways(remaining, jars) == TRUE

FitsStrict(remaining, jars) == remaining > jars

Fits(remaining, jars) == remaining >= jars

FirstFitMondayOnly(pool_capacities, jars) ==
    IF Fits(pool_capacities[time_slots[1]], jars) THEN 1 ELSE 0

FirstFitLast(pool_capacities, jars) ==
    LET ok == {i \in 1..Len(time_slots) : Fits(pool_capacities[time_slots[i]], jars)}
    IN  IF ok = {} THEN 0 ELSE CHOOSE i \in ok : \A j \in ok : i >= j

\* index in time_slots of the first cell with enough capacity, 0 when none
FirstFit(pool_capacities, jars) ==
    LET ok == {i \in 1..Len(time_slots) : Fits(pool_capacities[time_slots[i]], jars)}
    IN  IF ok = {} THEN 0 ELSE CHOOSE i \in ok : \A j \in ok : i <= j

CapaciteInsuffisante == "Capacite insuffisante"

(***************************************************************************)
(* Statistics                                                              *)
(***************************************************************************)
PlannedJarsAnyPool(plan, pool_name) ==
    SumJars([i \in 1..Len(plan) |-> plan[i].item])

PlannedJars(plan, pool_name) ==
    LET keep(p) == p.scheduled_pool = pool_name
        mine == SelectSeq(plan, keep)
    IN  SumJars([i \in 1..Len(mine) |-> mine[i].item])

\* used / cap * 100 for cap # 0, kept as the exact fraction num / den
Percent(used, cap) == [num |-> used * 100, den |-> cap]

ComputedStats(frame, plan, back, caps, eng) ==
    LET used_gen == [c \in Cells |-> eng.cap_gen_half_day - caps["pool_gen"][c]]
        used_i == [c \in Cells |-> eng.cap_i_half_day - caps["pool_i"][c]]
    IN  [total_eligible |-> Len(Eligible(frame)),
         total_planned |-> Len(plan),
         total_backlog |-> Len(back),
         jars_planned_gen |-> PlannedJars(plan, "pool_gen"),
         jars_planned_i |-> PlannedJars(plan, "pool_i"),
         capacity_used_gen |-> used_gen,
         capacity_used_i |-> used_i,
         capacity_pct_gen |-> [c \in Cells |-> Percent(used_gen[c], eng.cap_gen_half_day)],
         capacity_pct_i |-> [c \in Cells |-> Percent(used_i[c], eng.cap_i_half_day)]]

(***************************************************************************)
(* Actions                                                                 *)
(***************************************************************************)
\* the caller's frame after prepare_data: the columns are written to
\* df.copy() (line 136), so the frame passed in stays as it was
CallerFrameShared(input, enriched) == enriched

CallerFrame(input, enriched) == input

\* prepare_data(df, threshold_brahy, threshold_other)
PrepareData ==
    /\ pc = "start"
    /\ df' = PrepareFrame(snapshot, thresholds.threshold_brahy, thresholds.threshold_other)
    /\ snapshot' = CallerFrame(snapshot, df')
    /\ pc' = "prepared"
    /\ UNCHANGED <<engine, thresholds, strains, todo, capacities,
                   schedule, planned, backlog, attempts, stats, ties, previous,
                   allow_split, comparisons, other>>

\* the capacities dict a call builds: every cell at its pool's half-day capacity
StaleCapacities ==
    IF previous # None THEN capacities
    ELSE [pool_gen |-> [c \in Cells |-> engine.cap_gen_half_day],
          pool_i |-> [c \in Cells |-> engine.cap_i_half_day]]

FreshCapacities ==
    [pool_gen |-> [c \in Cells |-> engine.cap_gen_half_day],
     pool_i |-> [c \in Cells |-> engine.cap_i_half_day]]

\* create_weekly_schedule, lines 201-259: filter, group, fresh grid and lists
StartSchedule ==
    /\ pc = "prepared"
    /\ LET strains_gen == GroupByStrain(PoolItems(df, "pool_gen"))
           strains_i == GroupByStrain(PoolItems(df, "pool_i"))
       IN  /\ strains' = [pool_gen |-> strains_gen, pool_i |-> strains_i]
           /\ todo' = GroupIterations(strains_gen, "pool_gen")
                      \o GroupIterations(strains_i, "pool_i")
    /\ capacities' = FreshCapacities
    /\ schedule' = [p \in Pools |-> [c \in Cells |-> <<>>]]
    /\ planned' = <<>>
    /\ backlog' = <<>>
    /\ attempts' = <<>>
    /\ comparisons' = [p \in Pools |-> 0]
    /\ pc' = "placing"
    /\ UNCHANGED <<engine, thresholds, snapshot, df, stats, ties, previous,
                   allow_split, other>>

\* the grid handed to place_strain_group for a pool's groups (lines 292-298):
\* capacities[pool_name] and schedule[pool_name]
GridShared(pool_name) == "pool_gen"

PoolGrid(pool_name) == pool_name

\* one iteration of the loop over a group's items (lines 267-290)
PlaceItem ==
    /\ pc = "placing"
    /\ todo # <<>>
    /\ LET it == Head(todo)
           item == it.item
           jars == item.jars
           grid == PoolGrid(it.pool)
           k == FirstFit(capacities[grid], jars)
       IN  /\ IF k # 0
              THEN /\ capacities' = [capacities EXCEPT
                                        ![grid][time_slots[k]] = @ - jars]
                   /\ schedule' = [schedule EXCEPT
                                        ![grid][time_slots[k]] = Append(@, item)]
                   /\ planned' = Append(planned,
                                    [item |-> item,
                                     scheduled_day |-> time_slots[k][1],
                                     scheduled_slot |-> time_slots[k][2],
                                     scheduled_pool |-> it.pool])
                   /\ UNCHANGED backlog
              ELSE /\ backlog' = Append(backlog,
                                    [item |-> item,
                                     backlog_reason |-> CapaciteInsuffisante])
                   /\ UNCHANGED <<capacities, schedule, planned>>
           /\ attempts' = Append(attempts, item.idx)
           /\ comparisons' = [comparisons EXCEPT
                                 ![it.pool] = @ + (IF k # 0 THEN k ELSE Len(time_slots))]
    /\ todo' = Tail(todo)
    /\ UNCHANGED <<engine, thresholds, snapshot, df, pc, strains, stats, ties, previous,
                   allow_split, other>>

\* lines 300-336: the statistics and the return.  Dividing by a half-day
\* capacity of 0 raises ZeroDivisionError in the first pass of the loop.
ComputeStats ==
    /\ pc = "placing"
    /\ todo = <<>>
    /\ IF engine.cap_gen_half_day = 0 \/ engine.cap_i_half_day = 0
       THEN /\ pc' = "raised"
            /\ UNCHANGED stats
       ELSE /\ pc' = "done"
            /\ stats' = ComputedStats(df, planned, backlog, capacities, engine)
    /\ UNCHANGED <<engine, thresholds, snapshot, df, strains, todo, capacities,
                   schedule, planned, backlog, attempts, ties, previous,
                   allow_split, comparisons, other>>

\* the caller keeps the returned result and runs prepare_data and
\* create_weekly_schedule once more, on the same engine and the same snapshot
Rerun ==
    /\ pc = "done"
    /\ previous = None
    /\ previous' = Some([planned |-> planned, backlog |-> backlog,
                         schedule |-> schedule, capacities |-> capacities,
                         stats |-> stats])
    /\ pc' = "start"
    /\ UNCHANGED <<engine, thresholds, snapshot, df, strains, todo, capacities,
                   schedule, planned, backlog, attempts, stats, ties,
                   allow_split, comparisons, other>>

\* a second call of create_weekly_schedule on the same engine object, running
\* while the first is in progress; it is given the prepared frame in reverse
\* row order.  capacities, schedule, planned and backlog are local variables
\* of the call (lines 241-253)
GridOnEngine == FALSE

OwnsGrid == TRUE

Reverse(seq) == [i \in 1..Len(seq) |-> seq[Len(seq) + 1 - i]]

OtherStart ==
    /\ pc \in {"prepared", "placing", "done", "raised"}
    /\ other.pc = "idle"
    /\ LET strains_gen == GroupByStrain(PoolItems(Reverse(df), "pool_gen"))
           strains_i == GroupByStrain(PoolItems(Reverse(df), "pool_i"))
           mine == [pc |-> "placing",
                    todo |-> GroupIterations(strains_gen, "pool_gen")
                             \o GroupIterations(strains_i, "pool_i"),
                    capacities |-> IF OwnsGrid THEN FreshCapacities ELSE other.capacities,
                    schedule |-> [p \in Pools |-> [c \in Cells |-> <<>>]],
                    planned |-> <<>>, backlog |-> <<>>]
       IN  /\ other' = mine
           /\ capacities' = IF OwnsGrid THEN capacities ELSE FreshCapacities
    /\ UNCHANGED <<engine, thresholds, snapshot, df, pc, strains, todo, schedule,
                   planned, backlog, attempts, stats, ties, previous, allow_split,
                   comparisons>>

OtherPlace ==
    /\ other.pc = "placing"
    /\ other.todo # <<>>
    /\ LET it == Head(other.todo)
           item == it.item
           jars == item.jars
           grid == PoolGrid(it.pool)
           seen == IF OwnsGrid THEN other.capacities ELSE capacities
           k == FirstFit(seen[grid], jars)
           left == [seen EXCEPT ![grid][time_slots[k]] = @ - jars]
       IN  IF k # 0
           THEN /\ other' = [other EXCEPT
                                !.todo = Tail(@),
                                !.capacities = IF OwnsGrid THEN left ELSE @,
                                !.schedule[grid][time_slots[k]] = Append(@, item),
                                !.planned = Append(@,
                                    [item |-> item,
                                     scheduled_day |-> time_slots[k][1],
                                     scheduled_slot |-> time_slots[k][2],
                                     scheduled_pool |-> it.pool])]
                /\ capacities' = IF OwnsGrid THEN capacities ELSE left
           ELSE /\ other' = [other EXCEPT
                                !.todo = Tail(@),
                                !.backlog = Append(@,
                                    [item |-> item,
                                     backlog_reason |-> CapaciteInsuffisante])]
                /\ UNCHANGED capacities
    /\ UNCHANGED <<engine, thresholds, snapshot, df, pc, strains, todo, schedule,
                   planned, backlog, attempts, stats, ties, previous, allow_split,
                   comparisons>>

\* the statistics loop and the return of the second call
OtherReturn ==
    /\ other.pc = "placing"
    /\ other.todo = <<>>
    /\ other' = [other EXCEPT
                    !.pc = IF engine.cap_gen_half_day = 0 \/ engine.cap_i_half_day = 0
                           THEN "raised" ELSE "done"]
    /\ UNCHANGED <<engine, thresholds, snapshot, df, pc, strains, todo, capacities,
                   schedule, planned, backlog, attempts, stats, ties, previous,
                   allow_split, comparisons>>

Schedule == StartSchedule \/ PlaceItem \/ ComputeStats

Next == PrepareData \/ StartSchedule \/ PlaceItem \/ ComputeStats

(***************************************************************************)
(* Inputs                                                                  *)
(***************************************************************************)
MaxRecords == 3
MaxPrepared == 2
MaxRerun == 2
MaxSplit == 2
MaxTwoRuns == 2
MaxFullTail == 2
MaxWorkers == 3
MaxJarsPerDay == 4

DefaultWorkersGen == 17
DefaultWorkersI == 3
DefaultJarsPerDay == 50
DefaultThresholdBrahy == 4
DefaultThresholdOther == 8

SeqsUpTo(S, n) == UNION {[1..k -> S] : k \in 0..n}

Raw(strain, medium, chambre, weeks, total) ==
    [strain_code |-> strain, medium_code |-> medium, chambre |-> chambre,
     nb_weeks |-> weeks, total_jars |-> total]

StrainA == <<"A">>
StrainB == <<"B">>
MediumX == <<"X">>
MediumXM == <<"X","M">>
Shelf == <<"A","1">>

\* records of the scheduling runs: strains A and B in the general pool and
\* strain A in the specialized pool, old and large or younger and small; then
\* a record without strain code, one too young and one without a jar count
ScheduleRecords ==
    {Raw(Some(sm[1]), Some(sm[2]), Some(Shelf), Some(aj[1]), Some(aj[2])) :
        sm \in {<<StrainA, MediumX>>, <<StrainB, MediumX>>, <<StrainA, MediumXM>>},
        aj \in {<<10, 2>>, <<8, 1>>}}
    \cup {Raw(None, Some(MediumX), Some(Shelf), Some(10), Some(2)),
          Raw(Some(StrainA), Some(MediumX), Some(Shelf), Some(7), Some(1)),
          Raw(Some(StrainB), Some(MediumX), Some(Shelf), Some(12), None)}

\* half-day capacities (3, 1), (1, 3) and (0, 0)
Engines ==
    {NewEngine(2, 1, 3), NewEngine(1, 2, 3), NewEngine(1, 1, 1)}

DefaultThresholds ==
    [threshold_brahy |-> DefaultThresholdBrahy, threshold_other |-> DefaultThresholdOther]

\* no second call
NoRun ==
    [pc |-> "idle", todo |-> <<>>,
     capacities |-> [p \in Pools |-> [c \in Cells |-> 0]],
     schedule |-> [p \in Pools |-> [c \in Cells |-> <<>>]],
     planned |-> <<>>, backlog |-> <<>>]

Idle ==
    /\ comparisons = [p \in Pools |-> 0]
    /\ other = NoRun
    /\ df = <<>>
    /\ strains = [pool_gen |-> <<>>, pool_i |-> <<>>]
    /\ todo = <<>>
    /\ capacities = [p \in Pools |-> [c \in Cells |-> 0]]
    /\ schedule = [p \in Pools |-> [c \in Cells |-> <<>>]]
    /\ planned = <<>>
    /\ backlog = <<>>
    /\ attempts = <<>>
    /\ stats = None
    /\ previous = None

\* an engine, and a snapshot of up to MaxRecords records to prepare and schedule
Init ==
    /\ allow_split = FALSE
    /\ engine \in Engines
    /\ ties \in TieOrders
    /\ thresholds = DefaultThresholds
    /\ snapshot \in SeqsUpTo(ScheduleRecords, MaxRecords)
    /\ pc = "start"
    /\ Idle

Spec == Init /\ [][Next]_vars

\* one record of any shape, the default engine, two settings of the thresholds
RecordChambres ==
    {Some(Shelf), Some(<<"C","H","F","2">>), Some(<<"c","h","f">>),
     Some(<<"s","a","l","l","e"," ","F","r","o","i","d">>), None}
RecordMediums ==
    {Some(m) : m \in ELIGIBLE_MEDIUMS}
    \cup {Some(<<"x","m">>), Some(<<"e","+">>), Some(<<"I">>), Some(<<"Z">>), None}
RecordStrains ==
    {Some(BRAHY), Some(<<"b","r","a","h","y">>), Some(StrainA), None}
RecordAges == {None, Some(3), Some(4), Some(5), Some(7), Some(8), Some(20)}
RecordJars == {None, Some(1)}
ThresholdChoices ==
    {DefaultThresholds, [threshold_brahy |-> 8, threshold_other |-> 4]}

InitRecord ==
    /\ allow_split = FALSE
    /\ engine = NewEngine(DefaultWorkersGen, DefaultWorkersI, DefaultJarsPerDay)
    /\ ties = "kept"
    /\ thresholds \in ThresholdChoices
    /\ snapshot \in {<<Raw(s, m, c, a, j)>> :
            s \in RecordStrains, m \in RecordMediums, c \in RecordChambres,
            a \in RecordAges, j \in RecordJars}
    /\ pc = "start"
    /\ Idle

SpecRecord == InitRecord /\ [][Next]_vars

\* a frame handed to create_weekly_schedule by a caller that filled the
\* is_eligible and pool columns itself
PreparedShapes ==
    {[strain_code |-> Some(sj[1]), medium_code |-> Some(mp[1]), chambre |-> Some(Shelf),
      age_weeks |-> Some(8), jars |-> sj[2], is_eligible |-> e,
      ineligibility_reason |-> IF e THEN None ELSE AgeInconnu, pool |-> mp[2]] :
        sj \in {<<StrainA, 2>>, <<StrainB, 1>>},
        mp \in {<<MediumX, Some("pool_gen")>>, <<MediumXM, Some("pool_i")>>,
                <<(<<"i">>), None>>},
        e \in BOOLEAN}

WithIndex(shape, i) ==
    [idx |-> i, strain_code |-> shape.strain_code, medium_code |-> shape.medium_code,
     chambre |-> shape.chambre, age_weeks |-> shape.age_weeks, jars |-> shape.jars,
     is_eligible |-> shape.is_eligible,
     ineligibility_reason |-> shape.ineligibility_reason, pool |-> shape.pool]

InitPrepared ==
    /\ allow_split = FALSE
    /\ comparisons = [p \in Pools |-> 0]
    /\ other = NoRun
    /\ engine \in Engines
    /\ ties \in TieOrders
    /\ previous = None
    /\ thresholds = DefaultThresholds
    /\ snapshot = <<>>
    /\ pc = "prepared"
    /\ strains = [pool_gen |-> <<>>, pool_i |-> <<>>]
    /\ todo = <<>>
    /\ capacities = [p \in Pools |-> [c \in Cells |-> 0]]
    /\ schedule = [p \in Pools |-> [c \in Cells |-> <<>>]]
    /\ planned = <<>>
    /\ backlog = <<>>
    /\ attempts = <<>>
    /\ stats = None
    /\ df \in {[i \in 1..Len(f) |-> WithIndex(f[i], i)] :
                  f \in SeqsUpTo(PreparedShapes, MaxPrepared)}

SpecPrepared == InitPrepared /\ [][Schedule]_vars

(***************************************************************************)
(* Properties                                                              *)
(***************************************************************************)
InitialCapacity(pool_name) ==
    IF pool_name = "pool_gen" THEN engine.cap_gen_half_day ELSE engine.cap_i_half_day

Scheduling == pc \in {"placing", "done", "raised"}

\* number of entries of a planned or backlog list that hold the row labelled i
Occurrences(list, i) == Cardinality({k \in 1..Len(list) : list[k].item.idx = i})

Attempted(i) == \E k \in 1..Len(attempts) : attempts[k] = i
Position(i) == CHOOSE k \in 1..Len(attempts) : attempts[k] = i

\* C1: the jars of the records placed in a cell never sum to more than the
\* cell's initial capacity (cap_gen_half_day or cap_i_half_day), in each pool
\* and each of the ten cells, during and after create_weekly_schedule.
C1_CapacityRespected ==
    Scheduling =>
        \A p \in Pools, c \in Cells : SumJars(schedule[p][c]) <= InitialCapacity(p)

\* a finished run that filled a cell exactly with two records and sent a
\* record to the backlog
C1_Witness ==
    /\ pc = "done"
    /\ backlog # <<>>
    /\ \E p \in Pools, c \in Cells :
          /\ Len(schedule[p][c]) >= 2
          /\ SumJars(schedule[p][c]) = InitialCapacity(p)

\* C2: after create_weekly_schedule every eligible row that has a pool is
\* exactly once in planned or exactly once in backlog, whatever its strain
\* code (a missing one included).
C2_Partition ==
    pc = "done" =>
        \A i \in 1..Len(df) :
            (df[i].is_eligible /\ df[i].pool # None)
                => Occurrences(planned, i) + Occurrences(backlog, i) = 1

\* the rows of a pool that carry strain code s, and their mean age as a fraction
GroupRows(pool_name, s) ==
    {i \in 1..Len(df) : /\ df[i].is_eligible
                        /\ df[i].pool = Some(pool_name)
                        /\ df[i].strain_code = Some(s)}

RECURSIVE AgeTotal(_)
AgeTotal(S) ==
    IF S = {} THEN 0
    ELSE LET i == CHOOSE x \in S : TRUE
         IN  Val(df[i].age_weeks) + AgeTotal(S \ {i})

StrictlyOlder(pool_name, s, t) ==
    AgeTotal(GroupRows(pool_name, s)) * Cardinality(GroupRows(pool_name, t))
        > AgeTotal(GroupRows(pool_name, t)) * Cardinality(GroupRows(pool_name, s))

\* the strain codes of the frame
StrainCodes ==
    {Val(df[i].strain_code) : i \in {j \in 1..Len(df) : ~IsNA(df[j].strain_code)}}

\* C3: within a pool, when strain group s has a strictly greater mean age than
\* strain group t, every row of s is attempted before any row of t: once the
\* placement loops have ended, the rows of both groups have been attempted and
\* each row of s comes before each row of t in the order of the attempts.
C3_OlderGroupFirst ==
    (Scheduling /\ todo = <<>>) =>
        \A p \in Pools, s \in StrainCodes, t \in StrainCodes :
            StrictlyOlder(p, s, t) =>
                \A i \in GroupRows(p, s), j \in GroupRows(p, t) :
                    Attempted(i) /\ Attempted(j) /\ Position(i) < Position(j)

\* a finished run in which group B, later than A by strain code, was older on
\* average and had its two rows attempted before A's
C3_Witness ==
    /\ pc = "done"
    /\ \E p \in Pools :
          /\ StrictlyOlder(p, StrainB, StrainA)
          /\ Cardinality(GroupRows(p, StrainB)) = 2
          /\ GroupRows(p, StrainA) # {}
          /\ \A i \in GroupRows(p, StrainB), j \in GroupRows(p, StrainA) :
                Attempted(i) /\ Attempted(j) /\ Position(i) < Position(j)

Prepared == pc # "start"

ColdStorage(r) ==
    LET chambre == Upper(Str(r.chambre))
    IN  Contains(chambre, CHF) \/ Contains(chambre, FROID)

MediumRefused(r) == Upper(Str(r.medium_code)) \notin ELIGIBLE_MEDIUMS

\* C4: is_eligible decides by first match in the order cold storage, medium,
\* unknown age, age threshold: a cold-storage location gives the cold-storage
\* reason whatever the medium and age; otherwise a refused medium gives the
\* medium reason whatever the age; otherwise an unknown age gives the
\* unknown-age reason; only then the age decides.
C4_FirstMatchOrder ==
    Prepared =>
        \A i \in 1..Len(df) :
            LET r == df[i]
            IN  IF ColdStorage(r)
                THEN ~r.is_eligible /\ r.ineligibility_reason = ChambreFroide
                ELSE IF MediumRefused(r)
                THEN ~r.is_eligible /\ r.ineligibility_reason = MilieuNonEligible
                ELSE IF IsNA(r.age_weeks)
                THEN ~r.is_eligible /\ r.ineligibility_reason = AgeInconnu
                ELSE r.ineligibility_reason
                        \notin {ChambreFroide, MilieuNonEligible, AgeInconnu}

\* scenario C: location CHF2, medium X, age 20 is refused as cold storage
C4_Witness ==
    /\ Prepared
    /\ Len(df) = 1
    /\ df[1].chambre = Some(<<"C","H","F","2">>)
    /\ df[1].medium_code = Some(MediumX)
    /\ df[1].age_weeks = Some(20)
    /\ ~df[1].is_eligible
    /\ df[1].ineligibility_reason = ChambreFroide

\* C5: for a row that passes the cold-storage, medium and known-age checks the
\* threshold is threshold_brahy exactly when the strain is BRAHY in any letter
\* case and the medium is one of X, XM, E, E+, and threshold_other otherwise;
\* the row is eligible iff its age is at least that threshold, and otherwise
\* the reason names the age and the threshold.
C5_Threshold ==
    Prepared =>
        \A i \in 1..Len(df) :
            LET r == df[i]
                brahy == /\ Upper(Str(r.strain_code)) = <<"B","R","A","H","Y">>
                         /\ Upper(Str(r.medium_code))
                                \in {<<"X">>, <<"X","M">>, <<"E">>, <<"E","+">>}
                limit == IF brahy THEN thresholds.threshold_brahy
                                  ELSE thresholds.threshold_other
            IN  (~ColdStorage(r) /\ ~MediumRefused(r) /\ ~IsNA(r.age_weeks)) =>
                    /\ r.is_eligible <=> (Val(r.age_weeks) >= limit)
                    /\ r.is_eligible => r.ineligibility_reason = None
                    /\ ~r.is_eligible =>
                          r.ineligibility_reason = <<"Trop jeune", Val(r.age_weeks), limit>>

\* scenario B, second half: BRAHY on RG at 5 weeks is too young, 5 < 8
C5_Witness ==
    /\ Prepared
    /\ Len(df) = 1
    /\ thresholds = DefaultThresholds
    /\ df[1].strain_code = Some(BRAHY)
    /\ df[1].medium_code = Some(<<"R","G">>)
    /\ df[1].age_weeks = Some(5)
    /\ ~df[1].is_eligible
    /\ df[1].ineligibility_reason = <<"Trop jeune", 5, 8>>

\* scenario B, first half: BRAHY on X at 5 weeks with threshold 4 is eligible
C5_WitnessEligible ==
    /\ Prepared
    /\ Len(df) = 1
    /\ thresholds = DefaultThresholds
    /\ df[1].strain_code = Some(BRAHY)
    /\ df[1].medium_code = Some(MediumX)
    /\ df[1].age_weeks = Some(5)
    /\ df[1].is_eligible

\* the medium is one of the seven eligible media, letter case aside
OneOfSeven(medium) ==
    /\ ~IsNA(medium)
    /\ \E m \in {<<"X">>, <<"X","M">>, <<"R","G">>, <<"X","S">>, <<"E">>,
                 <<"E","+">>, <<"i">>} : Upper(m) = Upper(Val(medium))

\* C6: outside cold storage the medium reason is given exactly when the medium
\* is not one of X, XM, RG, XS, E, E+, i; a row in one of the seven media
\* (medium i in particular), with known age at or above its threshold, is
\* eligible.
C6_SevenMedia ==
    Prepared =>
        \A i \in 1..Len(df) :
            LET r == df[i]
            IN  ~ColdStorage(r) =>
                    /\ (r.ineligibility_reason = MilieuNonEligible)
                            <=> ~OneOfSeven(r.medium_code)
                    /\ ( /\ OneOfSeven(r.medium_code)
                         /\ ~IsNA(r.age_weeks)
                         /\ Val(r.age_weeks) >= thresholds.threshold_brahy
                         /\ Val(r.age_weeks) >= thresholds.threshold_other )
                            => r.is_eligible

ExpectedPool(medium) ==
    LET milieu == Upper(Str(medium))
    IN  IF milieu \in {Upper(<<"X","M">>), Upper(<<"i">>)} THEN Some("pool_i")
        ELSE IF milieu \in {<<"X">>, <<"R","G">>, <<"X","S">>, <<"E">>, <<"E","+">>}
        THEN Some("pool_gen")
        ELSE None

\* C7: assign_pool, comparing after uppercasing, sends XM and i to pool_i,
\* X, RG, XS, E and E+ to pool_gen and every other medium to none; the two
\* pools' medium sets are disjoint.
C7_PoolOfMedium ==
    /\ POOL_I_MEDIUMS \cap POOL_GEN_MEDIUMS = {}
    /\ Prepared => \A i \in 1..Len(df) : df[i].pool = ExpectedPool(df[i].medium_code)

\* C8: a row that prepare_data flags eligible has pool pool_gen or pool_i,
\* never none.
C8_EligibleHasPool ==
    Prepared =>
        \A i \in 1..Len(df) :
            df[i].is_eligible => df[i].pool \in {Some("pool_gen"), Some("pool_i")}

\* an eligible row written in lower case, xm, assigned to pool_i
C8_Witness ==
    /\ Prepared
    /\ Len(df) = 1
    /\ df[1].medium_code = Some(<<"x","m">>)
    /\ df[1].is_eligible
    /\ df[1].pool = Some("pool_i")

NoPoolRows == {i \in 1..Len(df) : df[i].is_eligible /\ df[i].pool = None}

\* C9: when the frame holds an eligible row whose pool is none, the row is in
\* neither planned nor backlog and a statistic of its own counts such rows, so
\* that total_eligible = total_planned + total_backlog + that statistic.
C9_NoPoolCounted ==
    (pc = "done" /\ NoPoolRows # {}) =>
        /\ \A i \in NoPoolRows :
              Occurrences(planned, i) = 0 /\ Occurrences(backlog, i) = 0
        /\ \E k \in {"jars_planned_gen", "jars_planned_i"} :
              /\ stats[k] = Cardinality(NoPoolRows)
              /\ stats.total_eligible
                    = stats.total_planned + stats.total_backlog + stats[k]

\* C10: the utilization of a cell is used / initial * 100, and 0 (no error)
\* when the cell's initial capacity is 0.
C10_Utilization ==
    /\ pc # "raised"
    /\ pc = "done" =>
          \A c \in Cells :
              LET is(pct, used, initial) ==
                      IF initial = 0 THEN pct.den # 0 /\ pct.num = 0
                      ELSE pct.den # 0 /\ pct.num * initial = used * 100 * pct.den
              IN  /\ is(stats.capacity_pct_gen[c],
                        engine.cap_gen_half_day - capacities["pool_gen"][c],
                        engine.cap_gen_half_day)
                  /\ is(stats.capacity_pct_i[c],
                        engine.cap_i_half_day - capacities["pool_i"][c],
                        engine.cap_i_half_day)

(***************************************************************************)
(* Properties of the placement steps                                       *)
(***************************************************************************)
\* a step that runs one iteration of the placement loop
PlaceStep == pc = "placing" /\ todo # <<>> /\ pc' = "placing" /\ todo' = Tail(todo)

\* the iteration about to run: its pool, its row and the row's jar count
Current == Head(todo)
CurrentJars == Head(todo).item.jars

\* the cells of a pool that have room for a number of jars now, by their
\* position in the week (1 is Monday morning), and the first of them (0: none)
CellsWithRoom(pool_name, jars) ==
    {i \in 1..Len(time_slots) : capacities[pool_name][time_slots[i]] >= jars}

FirstCellWithRoom(pool_name, jars) ==
    IF CellsWithRoom(pool_name, jars) = {} THEN 0
    ELSE CHOOSE i \in CellsWithRoom(pool_name, jars) :
             \A j \in CellsWithRoom(pool_name, jars) : i <= j

\* C11: a record whose jar count equals the remaining capacity of the first
\* cell that can take it is placed in that cell, and the cell's remaining
\* capacity becomes exactly 0.
C11_ExactFit ==
    [][PlaceStep =>
        LET k == FirstCellWithRoom(Current.pool, CurrentJars)
        IN  (k # 0 /\ capacities[Current.pool][time_slots[k]] = CurrentJars) =>
                /\ capacities'[Current.pool][time_slots[k]] = 0
                /\ schedule'[Current.pool][time_slots[k]]
                      = Append(schedule[Current.pool][time_slots[k]], Current.item)
                /\ Len(planned') = Len(planned) + 1
                /\ backlog' = backlog]_vars

\* a cell of positive capacity brought to 0 by a second record with jars
C11_Witness ==
    /\ pc = "placing"
    /\ \E p \in Pools, c \in Cells :
          /\ InitialCapacity(p) > 0
          /\ capacities[p][c] = 0
          /\ Len(schedule[p][c]) >= 2
          /\ schedule[p][c][Len(schedule[p][c])].jars > 0

(***************************************************************************)
(* Scenario A                                                              *)
(***************************************************************************)
StrainZ == <<"Z">>

\* Three 40-jar records of one strain with mean age 10 and one 90-jar record
\* of strain BRAHY aged 5 (eligible on medium X at the BRAHY threshold), all on
\* medium X, in any order of the snapshot; 4 general workers at 50 jars a day
\* give cells of 100.
ScenarioRecords(older, ages) ==
    <<Raw(Some(older), Some(MediumX), Some(Shelf), Some(ages[1]), Some(40)),
      Raw(Some(older), Some(MediumX), Some(Shelf), Some(ages[2]), Some(40)),
      Raw(Some(older), Some(MediumX), Some(Shelf), Some(ages[3]), Some(40)),
      Raw(Some(BRAHY), Some(MediumX), Some(Shelf), Some(5), Some(90))>>

Orders(n) == {f \in [1..n -> 1..n] : \A i, j \in 1..n : f[i] = f[j] => i = j}

InitScenarioA ==
    /\ allow_split = FALSE
    /\ engine \in {NewEngine(4, i, DefaultJarsPerDay) : i \in {1, 2, 3}}
    /\ ties \in TieOrders
    /\ thresholds = DefaultThresholds
    /\ snapshot \in
          {[i \in 1..4 |-> ScenarioRecords(older, ages)[f[i]]] :
              older \in {StrainA, StrainZ},
              ages \in {<<10, 10, 10>>, <<12, 10, 8>>, <<11, 11, 8>>},
              f \in Orders(4)}
    /\ pc = "start"
    /\ Idle

SpecScenarioA == InitScenarioA /\ [][Next]_vars

\* C12: scenario A ends with two 40-jar records in cell 0 (remaining 20), the
\* third in cell 1 (remaining 60) and the 90-jar record in cell 2 (remaining
\* 10); the four records are planned and the backlog is empty.
C12_ScenarioA ==
    pc = "done" =>
        LET gen == schedule["pool_gen"]
            left == capacities["pool_gen"]
            jarsOf(c) == [i \in 1..Len(gen[c]) |-> gen[c][i].jars]
            strainsOf(c) == {gen[c][i].strain_code : i \in 1..Len(gen[c])}
        IN  /\ engine.cap_gen_half_day = 100
            /\ jarsOf(time_slots[1]) = <<40, 40>>
            /\ left[time_slots[1]] = 20
            /\ jarsOf(time_slots[2]) = <<40>>
            /\ left[time_slots[2]] = 60
            /\ jarsOf(time_slots[3]) = <<90>>
            /\ strainsOf(time_slots[3]) = {Some(BRAHY)}
            /\ left[time_slots[3]] = 10
            /\ \A i \in 4..Len(time_slots) :
                  gen[time_slots[i]] = <<>> /\ left[time_slots[i]] = 100
            /\ Len(planned) = 4
            /\ {planned[i].item.idx : i \in 1..4} = 1..4
            /\ backlog = <<>>

\* the scenario finished from a snapshot that lists the 90-jar record first
\* and names the older strain Z, after BRAHY in the order of the codes
C12_Witness ==
    /\ pc = "done"
    /\ Len(snapshot) = 4
    /\ snapshot[1].total_jars = Some(90)
    /\ snapshot[2].strain_code = Some(StrainZ)
    /\ Len(planned) = 4
    /\ capacities["pool_gen"][time_slots[3]] = 10

(***************************************************************************)
(* Two runs in a row                                                       *)
(***************************************************************************)
InitRerun ==
    /\ allow_split = FALSE
    /\ engine \in Engines
    /\ ties \in TieOrders
    /\ thresholds = DefaultThresholds
    /\ snapshot \in SeqsUpTo(ScheduleRecords, MaxRerun)
    /\ pc = "start"
    /\ Idle

NextRerun == PrepareData \/ StartSchedule \/ PlaceItem \/ ComputeStats \/ Rerun

SpecRerun == InitRerun /\ [][NextRerun]_vars

\* C13: a second run of prepare_data and create_weekly_schedule on the same
\* engine object, snapshot and thresholds returns the planned list, the
\* backlog list, the cells' lists and the remaining capacities of the first
\* run, entry for entry and in the same order.
C13_SameResult ==
    (pc = "done" /\ previous # None) =>
        /\ planned = Val(previous).planned
        /\ backlog = Val(previous).backlog
        /\ schedule = Val(previous).schedule
        /\ capacities = Val(previous).capacities
        /\ stats = Val(previous).stats

\* a second run finished that planned a record with jars and backlogged another
C13_Witness ==
    /\ pc = "done"
    /\ previous # None
    /\ backlog # <<>>
    /\ \E i \in 1..Len(planned) : planned[i].item.jars > 0

(***************************************************************************)
(* The two pools                                                           *)
(***************************************************************************)
\* what the placement of a pool's iterations alone gives on a grid of its own
RECURSIVE AloneRun(_, _, _)
AloneRun(its, caps, out) ==
    IF its = <<>> THEN [caps |-> caps, cells |-> out.cells, back |-> out.back]
    ELSE LET item == Head(its).item
             room == {i \in 1..Len(time_slots) : caps[time_slots[i]] >= item.jars}
         IN  IF room = {}
             THEN AloneRun(Tail(its), caps, [out EXCEPT !.back = Append(@, item)])
             ELSE LET k == CHOOSE i \in room : \A j \in room : i <= j
                  IN  AloneRun(Tail(its),
                               [caps EXCEPT ![time_slots[k]] = @ - item.jars],
                               [out EXCEPT !.cells[time_slots[k]] = Append(@, item)])

AloneOn(frame, pool_name) ==
    AloneRun(GroupIterations(GroupByStrain(PoolItems(frame, pool_name)), pool_name),
             [c \in Cells |-> InitialCapacity(pool_name)],
             [cells |-> [c \in Cells |-> <<>>], back |-> <<>>])

Alone(pool_name) == AloneOn(df, pool_name)

BacklogItems(list, pool_name) ==
    LET keep(b) == b.item.pool = Some(pool_name)
        mine == SelectSeq(list, keep)
    IN  [i \in 1..Len(mine) |-> mine[i].item]

BacklogOf(pool_name) == BacklogItems(backlog, pool_name)

OtherPoolUntouched ==
    PlaceStep => \A q \in Pools \ {Current.pool} :
                     /\ capacities'[q] = capacities[q]
                     /\ schedule'[q] = schedule[q]

\* C14: the step that attempts a record of one pool leaves every cell of the
\* other pool's grid as it was (remaining capacity and placed records), and
\* once the loops have ended each pool's placements, backlog and remaining
\* capacities are what that pool's own records give on a grid of their own,
\* whatever the other pool received.
C14_PoolsIndependent ==
    /\ []((Scheduling /\ todo = <<>>) =>
            \A p \in Pools :
                /\ capacities[p] = Alone(p).caps
                /\ schedule[p] = Alone(p).cells
                /\ BacklogOf(p) = Alone(p).back)
    /\ [][OtherPoolUntouched]_vars

\* both pools placed a record with jars in the same run and pool_i backlogged one
C14_Witness ==
    /\ pc = "done"
    /\ \A p \in Pools : \E c \in Cells : capacities[p][c] < InitialCapacity(p)
    /\ BacklogOf("pool_i") # <<>>

(***************************************************************************)
(* No eligible record                                                      *)
(***************************************************************************)
\* planning_page.py line 301: total_planned / total_eligible * 100 when
\* total_eligible > 0, else 0; kept as the exact fraction num / den
PlanningRate(st) ==
    IF st.total_eligible > 0
    THEN [num |-> st.total_planned * 100, den |-> st.total_eligible]
    ELSE [num |-> 0, den |-> 1]

\* C15: when the frame holds no eligible record the run ends with a result (no
\* error) whose planned and backlog lists are empty, whose counts are all 0
\* and whose planning rate is 0%.
C15_ZeroEligible ==
    (pc \in {"done", "raised"} /\ Eligible(df) = <<>>) =>
        /\ pc = "done"
        /\ planned = <<>>
        /\ backlog = <<>>
        /\ stats.total_eligible = 0
        /\ stats.total_planned = 0
        /\ stats.total_backlog = 0
        /\ stats.jars_planned_gen = 0
        /\ stats.jars_planned_i = 0
        /\ PlanningRate(stats).num = 0
        /\ PlanningRate(stats).den # 0

(***************************************************************************)
(* First fit                                                               *)
(***************************************************************************)
\* position in the week of the cell a planned entry names
CellIndex(p) ==
    CHOOSE i \in 1..Len(time_slots) :
        time_slots[i] = <<p.scheduled_day, p.scheduled_slot>>

Placed == Len(planned') = Len(planned) + 1
Landed == planned'[Len(planned')]

\* C16: an attempted record for which some cell of its pool has room is placed,
\* and the cell it lands in is one of its own pool that had remaining capacity
\* >= its jar count just before, while every cell earlier in the week
\* (Monday morning first, Friday afternoon last) had strictly less.
C16_FirstFit ==
    [][PlaceStep =>
        /\ CellsWithRoom(Current.pool, CurrentJars) # {} => Placed
        /\ Placed =>
              /\ Landed.item = Current.item
              /\ Landed.scheduled_pool = Current.pool
              /\ capacities[Current.pool][time_slots[CellIndex(Landed)]] >= CurrentJars
              /\ \A j \in 1..(CellIndex(Landed) - 1) :
                     capacities[Current.pool][time_slots[j]] < CurrentJars
              /\ schedule'[Current.pool][time_slots[CellIndex(Landed)]]
                    = Append(schedule[Current.pool][time_slots[CellIndex(Landed)]],
                             Current.item)]_vars

\* a record has landed later than Monday morning, where an earlier record sits
C16_Witness ==
    /\ pc = "placing"
    /\ \E i \in 1..Len(planned) :
          /\ CellIndex(planned[i]) > 1
          /\ schedule[planned[i].scheduled_pool][time_slots[1]] # <<>>

(***************************************************************************)
(* Backlog                                                                 *)
(***************************************************************************)
Backlogged == Len(backlog') = Len(backlog) + 1

\* the eligible rows that have a pool: the records the run has to attempt
PoolRows == {i \in 1..Len(df) : df[i].is_eligible /\ ~IsNA(df[i].pool)}

TimesAttempted(i) == Cardinality({k \in 1..Len(attempts) : attempts[k] = i})

BacklogExactlyWhenNoRoom ==
    PlaceStep =>
        /\ Backlogged <=> CellsWithRoom(Current.pool, CurrentJars) = {}
        /\ Backlogged =>
              /\ backlog'[Len(backlog')].item = Current.item
              /\ backlog'[Len(backlog')].backlog_reason = CapaciteInsuffisante
              /\ planned' = planned
        /\ \A k \in 1..Len(backlog) : backlog'[k] = backlog[k]

NeverPlacedLater ==
    Scheduling =>
        \A i \in 1..Len(df) : Occurrences(backlog, i) = 0 \/ Occurrences(planned, i) = 0

\* C17: a record goes to the backlog, with the reason "Capacite insuffisante",
\* exactly when no cell of its pool has remaining capacity >= its jar count
\* when it is attempted; once the loops have ended every eligible record of a
\* pool has been attempted exactly once, and no backlogged record is in the
\* planned list.
C17_Backlog ==
    /\ [][BacklogExactlyWhenNoRoom]_vars
    /\ []NeverPlacedLater
    /\ []((Scheduling /\ todo = <<>>) => \A i \in PoolRows : TimesAttempted(i) = 1)

(***************************************************************************)
(* Equal sort keys                                                         *)
(***************************************************************************)
\* the first row of a group in the order of the input
FirstRow(pool_name, s) ==
    CHOOSE i \in GroupRows(pool_name, s) : \A j \in GroupRows(pool_name, s) : i <= j

SameMeanAge(pool_name, s, t) ==
    /\ GroupRows(pool_name, s) # {}
    /\ GroupRows(pool_name, t) # {}
    /\ ~StrictlyOlder(pool_name, s, t)
    /\ ~StrictlyOlder(pool_name, t, s)

\* C18: with a sort that keeps equal keys in the order it receives them, once
\* the loops have ended two groups of a pool with the same mean age have been
\* processed in the order of their first rows in the input, and two rows of
\* one group with the same age in the order of the input.
C18_StableTies ==
    (Scheduling /\ todo = <<>> /\ ties = "kept") =>
        \A p \in Pools :
            /\ \A s \in StrainCodes, t \in StrainCodes :
                  (SameMeanAge(p, s, t) /\ FirstRow(p, s) < FirstRow(p, t)) =>
                      \A i \in GroupRows(p, s), j \in GroupRows(p, t) :
                          Position(i) < Position(j)
            /\ \A s \in StrainCodes :
                  \A i \in GroupRows(p, s), j \in GroupRows(p, s) :
                      (i < j /\ df[i].age_weeks = df[j].age_weeks) =>
                          Position(i) < Position(j)

(***************************************************************************)
(* Inside a group                                                          *)
(***************************************************************************)
\* C19: once the loops have ended, in each strain group of a pool a row with
\* a strictly greater age has been attempted before every strictly younger
\* row of the group, and the rows of the group have been attempted one after
\* the other, with no row of another group in between.
C19_WithinGroup ==
    (Scheduling /\ todo = <<>>) =>
        \A p \in Pools, s \in StrainCodes :
            \A i \in GroupRows(p, s), j \in GroupRows(p, s) :
                /\ Val(df[i].age_weeks) > Val(df[j].age_weeks) =>
                      Position(i) < Position(j)
                /\ \A k \in Position(i)..Position(j) :
                      attempts[k] \in GroupRows(p, s)

\* a group whose older row came later in the input, next to another group of
\* the same pool
C19_Witness ==
    /\ pc = "done"
    /\ \E p \in Pools, s \in StrainCodes, t \in StrainCodes :
          /\ s # t
          /\ GroupRows(p, t) # {}
          /\ \E i \in GroupRows(p, s), j \in GroupRows(p, s) :
                /\ i < j
                /\ Val(df[i].age_weeks) < Val(df[j].age_weeks)
                /\ Position(j) < Position(i)

(***************************************************************************)
(* Remaining capacity                                                      *)
(***************************************************************************)
NeverNegative ==
    Scheduling => \A p \in Pools, c \in Cells : capacities[p][c] >= 0

\* what one step of the run, from the first attempt to the return, does to the grid
OneCellByJars ==
    pc = "placing" =>
        /\ \A p \in Pools, c \in Cells : capacities'[p][c] <= capacities[p][c]
        /\ IF PlaceStep /\ Placed
           THEN \E c \in Cells :
                    /\ capacities' = [capacities EXCEPT
                                         ![Current.pool][c] = @ - CurrentJars]
                    /\ Landed.item.jars = CurrentJars
                    /\ c = time_slots[CellIndex(Landed)]
           ELSE capacities' = capacities

\* C20: jar counts being non-negative, every cell's remaining capacity is >= 0
\* in every state of a run, and each step of the run leaves the grid as it is
\* or takes the whole jar count of the one record it places from exactly one
\* cell: no cell's remaining capacity ever goes up.
C20_Remaining ==
    /\ []NeverNegative
    /\ [][OneCellByJars]_vars

\* a cell has been drawn on but not emptied, and a record went to the backlog
C20_Witness ==
    /\ pc = "placing"
    /\ backlog # <<>>
    /\ \E p \in Pools, c \in Cells :
          0 < capacities[p][c] /\ capacities[p][c] < InitialCapacity(p)

(***************************************************************************)
(* The allow_split argument                                                *)
(***************************************************************************)
\* create_weekly_schedule called with allow_split False or True
InitSplit ==
    /\ allow_split \in BOOLEAN
    /\ engine \in Engines
    /\ ties \in TieOrders
    /\ thresholds = DefaultThresholds
    /\ snapshot \in SeqsUpTo(ScheduleRecords, MaxSplit)
    /\ pc = "start"
    /\ Idle

SpecSplit == InitSplit /\ [][Next]_vars

\* the cells whose list holds the row labelled i
CellsHolding(i) ==
    {<<p, c>> \in Pools \X Cells :
        \E k \in 1..Len(schedule[p][c]) : schedule[p][c][k].idx = i}

PlannedWhole ==
    \A k \in 1..Len(planned) :
        /\ Occurrences(planned, planned[k].item.idx) = 1
        /\ Cardinality(CellsHolding(planned[k].item.idx)) = 1
        /\ planned[k].item.jars = df[planned[k].item.idx].jars
        /\ \A pc_ \in CellsHolding(planned[k].item.idx) :
              \A j \in 1..Len(schedule[pc_[1]][pc_[2]]) :
                  schedule[pc_[1]][pc_[2]][j].idx = planned[k].item.idx =>
                      schedule[pc_[1]][pc_[2]][j].jars = df[planned[k].item.idx].jars

TooLargeToBacklog(rows) ==
    \A i \in rows :
        df[i].jars > InitialCapacity(Val(df[i].pool)) =>
            /\ Occurrences(backlog, i) = 1
            /\ Occurrences(planned, i) = 0
            /\ CellsHolding(i) = {}

\* C21: with allow_split False or True, once the loops have ended every
\* planned record sits once in exactly one cell with its whole jar count, and
\* every eligible record of a pool whose jar count is above the pool's initial
\* cell capacity is in the backlog and in no cell.
C21_Atomic ==
    (Scheduling /\ todo = <<>>) => (PlannedWhole /\ TooLargeToBacklog(PoolRows))

(***************************************************************************)
(* Cell capacities                                                         *)
(***************************************************************************)
\* engines of 1..MaxWorkers workers per pool and 1..MaxJarsPerDay jars a day,
\* and up to two records of the general and the specialized pool
InitCapacity ==
    /\ allow_split = FALSE
    /\ engine \in {NewEngine(g, i, j) :
                      g \in 1..MaxWorkers, i \in 1..MaxWorkers, j \in 1..MaxJarsPerDay}
    /\ ties = "kept"
    /\ thresholds = DefaultThresholds
    /\ snapshot \in SeqsUpTo({Raw(Some(StrainA), Some(m), Some(Shelf), Some(10), Some(2)) :
                                 m \in {MediumX, MediumXM}}, 2)
    /\ pc = "start"
    /\ Idle

SpecCapacity == InitCapacity /\ [][Next]_vars

Workers(pool_name) ==
    IF pool_name = "pool_gen" THEN engine.nb_workers_gen ELSE engine.nb_workers_i

\* c = floor(n / 2)
IsHalfRoundedDown(c, n) == 2 * c <= n /\ n < 2 * c + 2

NoCellGains ==
    pc = "placing" =>
        \A p \in Pools, c \in Cells : capacities'[p][c] <= capacities[p][c]

\* C22: when the placement starts every cell of a pool holds the same capacity
\* floor(workers of the pool * jars per worker per day / 2), odd products
\* rounded down, and from then on no cell's remaining capacity goes up, so
\* what one cell leaves unused is never added to another.
C22_CellCapacity ==
    /\ []((pc = "placing" /\ attempts = <<>>) =>
            \A p \in Pools, c \in Cells :
                IsHalfRoundedDown(capacities[p][c],
                                  Workers(p) * engine.jars_per_day_per_worker))
    /\ [](Scheduling =>
            \A p \in Pools, c \in Cells :
                \E h \in 0..(Workers(p) * engine.jars_per_day_per_worker) :
                    /\ IsHalfRoundedDown(h, Workers(p) * engine.jars_per_day_per_worker)
                    /\ capacities[p][c] + SumJars(schedule[p][c]) = h)
    /\ [][NoCellGains]_vars

\* an odd product: cells of 1 for 1 worker and 3 jars a day; a record of 2
\* jars is in the backlog although the cells still hold 1 each
C22_Witness ==
    /\ pc = "done"
    /\ engine.nb_workers_gen * engine.jars_per_day_per_worker = 3
    /\ \A c \in Cells : capacities["pool_gen"][c] = 1
    /\ \E k \in 1..Len(backlog) :
          backlog[k].item.pool = Some("pool_gen") /\ backlog[k].item.jars = 2

(***************************************************************************)
(* The caller's frames                                                     *)
(***************************************************************************)
RawFields == {"strain_code", "medium_code", "chambre", "nb_weeks", "total_jars"}

InputKept ==
    /\ snapshot' = snapshot
    /\ pc \in {"prepared", "placing"} => df' = df

\* C23: no step of prepare_data or create_weekly_schedule changes the
\* caller's snapshot, whose records keep the fields of the query and gain
\* none, and no step of create_weekly_schedule changes the prepared frame it
\* was given: age, jars, eligibility, reason and pool are on the prepared
\* copy, the scheduled day, slot and pool and the backlog reason on the
\* entries of the planned and backlog lists.
C23_InputUnchanged ==
    /\ [](\A i \in 1..Len(snapshot) : DOMAIN snapshot[i] = RawFields)
    /\ [](Scheduling =>
            /\ Len(df) = Len(snapshot)
            /\ \A i \in 1..Len(df) :
                  "scheduled_day" \notin DOMAIN df[i] /\ "backlog_reason" \notin DOMAIN df[i])
    /\ [][InputKept]_vars

\* a run on two records ended with one planned and one in the backlog
C23_Witness ==
    /\ pc = "done"
    /\ Len(snapshot) = 2
    /\ \E k \in 1..Len(planned) : "scheduled_day" \in DOMAIN planned[k]
    /\ \E k \in 1..Len(backlog) : "backlog_reason" \in DOMAIN backlog[k]
    /\ "is_eligible" \in DOMAIN df[1]

(***************************************************************************)
(* Two calls in progress on one engine                                     *)
(***************************************************************************)
InitTwoRuns ==
    /\ allow_split = FALSE
    /\ engine \in Engines
    /\ ties \in TieOrders
    /\ thresholds = DefaultThresholds
    /\ snapshot \in SeqsUpTo(ScheduleRecords, MaxTwoRuns)
    /\ pc = "start"
    /\ Idle

NextTwoRuns ==
    \/ PrepareData \/ StartSchedule \/ PlaceItem \/ ComputeStats
    \/ OtherStart \/ OtherPlace \/ OtherReturn

SpecTwoRuns == InitTwoRuns /\ [][NextTwoRuns]_vars

\* what the first call sees of its grid and lists
Seen == <<capacities, schedule, planned, backlog>>

NoInterference ==
    /\ other' # other => Seen' = Seen
    /\ (Seen' # Seen \/ todo' # todo) => other' = other

\* C24: with two calls of create_weekly_schedule in progress on one engine,
\* their steps interleaved in any order, a step of one call leaves the
\* remaining capacities, the cell lists, the planned list and the backlog of
\* the other call as they were, and each call ends with the cells, backlog
\* and remaining capacities its frame gives when scheduled alone.
C24_RunsIndependent ==
    /\ [][NoInterference]_vars
    /\ []((Scheduling /\ todo = <<>>) =>
            \A p \in Pools :
                /\ capacities[p] = AloneOn(df, p).caps
                /\ schedule[p] = AloneOn(df, p).cells
                /\ BacklogItems(backlog, p) = AloneOn(df, p).back)
    /\ []((other.pc \in {"placing", "done", "raised"} /\ other.todo = <<>>) =>
            \A p \in Pools :
                /\ other.capacities[p] = AloneOn(Reverse(df), p).caps
                /\ other.schedule[p] = AloneOn(Reverse(df), p).cells
                /\ BacklogItems(other.backlog, p) = AloneOn(Reverse(df), p).back)

\* both calls are in the middle of their loops and each has placed a record
\* with jars
C24_Witness ==
    /\ pc = "placing"
    /\ todo # <<>>
    /\ other.pc = "placing"
    /\ other.todo # <<>>
    /\ \E k \in 1..Len(planned) : planned[k].item.jars > 0
    /\ \E k \in 1..Len(other.planned) : other.planned[k].item.jars > 0

(***************************************************************************)
(* The end of the loops                                                    *)
(***************************************************************************)
\* the eligible rows of one pool
RowsOfPool(pool_name) ==
    {i \in 1..Len(df) : df[i].is_eligible /\ df[i].pool = Some(pool_name)}

ComparisonsBounded ==
    \A p \in Pools :
        comparisons[p] <= Cardinality(RowsOfPool(p)) * Len(time_slots)

EveryRecordSettled(rows) ==
    \A i \in rows :
        /\ TimesAttempted(i) = 1
        /\ Occurrences(planned, i) + Occurrences(backlog, i) = 1

\* C25: when the placement loops have ended, each pool has made at most
\* n * 10 cell comparisons for its n eligible records, each eligible record
\* of a pool has been attempted once and each is either in the planned list
\* or in the backlog.
C25_LoopsEnd ==
    (Scheduling /\ todo = <<>>) => (ComparisonsBounded /\ EveryRecordSettled(PoolRows))

(***************************************************************************)
(* A week that fills up                                                    *)
(***************************************************************************)
\* general-pool cells of 1 jar; nine or ten one-jar records of strain A, then
\* up to MaxFullTail more records of one or two jars
FullWeekEngines == {NewEngine(1, 1, 2), NewEngine(1, 2, 3)}

Filler == Raw(Some(StrainA), Some(MediumX), Some(Shelf), Some(10), Some(1))

FullWeekTail ==
    {Raw(Some(s), Some(MediumX), Some(Shelf), Some(aj[1]), Some(aj[2])) :
        s \in {StrainA, StrainB}, aj \in {<<12, 1>>, <<9, 2>>, <<9, 0>>}}

InitFullWeek ==
    /\ allow_split = FALSE
    /\ engine \in FullWeekEngines
    /\ ties \in TieOrders
    /\ thresholds = DefaultThresholds
    /\ snapshot \in {[i \in 1..k |-> Filler] \o tail :
                        k \in {Len(time_slots) - 1, Len(time_slots)},
                        tail \in SeqsUpTo(FullWeekTail, MaxFullTail)}
    /\ pc = "start"
    /\ Idle

SpecFullWeek == InitFullWeek /\ [][Next]_vars

\* C26: jar counts being non-negative, when the loops have ended every record
\* of the backlog has more jars than the remaining capacity of each cell of
\* its pool: none of them would still fit anywhere in its pool's grid.
C26_BacklogFitsNowhere ==
    (Scheduling /\ todo = <<>>) =>
        \A k \in 1..Len(backlog) :
            /\ backlog[k].item.jars >= 0
            /\ \A c \in Cells :
                  backlog[k].item.jars > capacities[Val(backlog[k].item.pool)][c]

\* the week is full: all ten cells are at 0 and a one-jar record, which an
\* empty cell would hold, is in the backlog
C26_Witness ==
    /\ pc = "done"
    /\ \A c \in Cells : capacities["pool_gen"][c] = 0
    /\ \E k \in 1..Len(backlog) :
          /\ backlog[k].item.jars = 1
          /\ backlog[k].item.pool = Some("pool_gen")
          /\ InitialCapacity("pool_gen") = 1

(***************************************************************************)
(* Order of the attempts and cells                                         *)
(***************************************************************************)
IsPlanned(i) == Occurrences(planned, i) > 0
IsBacklogged(i) == Occurrences(backlog, i) > 0

\* position in the week of the cell the row labelled i was planned in
PlannedCell(i) ==
    CellIndex(planned[CHOOSE k \in 1..Len(planned) : planned[k].item.idx = i])

\* r was attempted before s in the same pool and has no more jars than s
BeforeNoLarger(r, s) ==
    /\ Attempted(r)
    /\ Attempted(s)
    /\ Position(r) < Position(s)
    /\ df[r].pool = df[s].pool
    /\ df[r].jars <= df[s].jars

\* C27: when the loops have ended, for records r and s of one pool with r
\* attempted before s and jars(r) <= jars(s): if both are planned, s is not
\* in an earlier cell than r, and if r is in the backlog, so is s.
C27_Monotone ==
    (Scheduling /\ todo = <<>>) =>
        \A r \in 1..Len(df), s \in 1..Len(df) :
            BeforeNoLarger(r, s) =>
                /\ (IsPlanned(r) /\ IsPlanned(s)) => PlannedCell(r) <= PlannedCell(s)
                /\ IsBacklogged(r) => IsBacklogged(s)

\* a record is in the backlog after an earlier one with no more jars, and a
\* record sits in a later cell than an earlier one with no more jars
C27_Witness ==
    /\ pc = "done"
    /\ \E r \in 1..Len(df), s \in 1..Len(df) :
          BeforeNoLarger(r, s) /\ IsBacklogged(r) /\ IsBacklogged(s)
    /\ \E r \in 1..Len(df), s \in 1..Len(df) :
          /\ BeforeNoLarger(r, s)
          /\ IsPlanned(r) /\ IsPlanned(s)
          /\ PlannedCell(r) < PlannedCell(s)

(***************************************************************************)
(* Statistics and the grid                                                 *)
(***************************************************************************)
\* the sum of a statistic over the first n cells of the week
RECURSIVE SumCells(_, _)
SumCells(used, n) ==
    IF n = 0 THEN 0 ELSE used[time_slots[n]] + SumCells(used, n - 1)

UsedOf(pool_name) ==
    IF pool_name = "pool_gen" THEN stats.capacity_used_gen ELSE stats.capacity_used_i

JarsPlannedOf(pool_name) ==
    IF pool_name = "pool_gen" THEN stats.jars_planned_gen ELSE stats.jars_planned_i

\* C28: in the statistics of a finished run, the used capacity of every cell
\* (initial - remaining) is the sum of the jars of the records in the cell's
\* list, each pool's planned jars are the sum of the used capacity of its
\* ten cells, and total_planned and total_backlog are the lengths of the
\* planned list and of the backlog.
C28_JarsConserved ==
    pc = "done" =>
        /\ \A p \in Pools :
              /\ \A c \in Cells :
                    /\ UsedOf(p)[c] = InitialCapacity(p) - capacities[p][c]
                    /\ UsedOf(p)[c] = SumJars(schedule[p][c])
              /\ JarsPlannedOf(p) = SumCells(UsedOf(p), Len(time_slots))
        /\ stats.total_planned = Len(planned)
        /\ stats.total_backlog = Len(backlog)

\* a finished run with jars planned in both pools and a record in the backlog
C28_Witness ==
    /\ pc = "done"
    /\ stats.jars_planned_gen > 0
    /\ stats.jars_planned_i > 0
    /\ stats.total_backlog > 0

(***************************************************************************)
(* The grid and the planned list                                           *)
(***************************************************************************)
\* the planned entries of one cell, in the order of the planned list
PlannedIn(pool_name, c) ==
    LET keep(p) == /\ p.scheduled_pool = pool_name
                   /\ <<p.scheduled_day, p.scheduled_slot>> = c
        mine == SelectSeq(planned, keep)
    IN  [i \in 1..Len(mine) |-> mine[i].item]

\* the rows of the attempts that were planned, in the order of the attempts
PlannedAttempts ==
    LET keep(i) == IsPlanned(i)
    IN  SelectSeq(attempts, keep)

\* C29: during and after the placement, the list of every cell (pool, day,
\* slot) holds exactly the records the planned list gives that pool, day and
\* slot; the scheduled pool of a planned record is the pool assign_pool gives
\* its medium; every record in a cell, in planned or in the backlog is flagged
\* eligible; and planned holds the placements in the order they were made,
\* all those of the general pool before any of the specialized pool.
C29_GridMatchesPlanned ==
    Scheduling =>
        /\ \A p \in Pools, c \in Cells : schedule[p][c] = PlannedIn(p, c)
        /\ \A k \in 1..Len(planned) :
              /\ planned[k].scheduled_pool \in Pools
              /\ <<planned[k].scheduled_day, planned[k].scheduled_slot>> \in Cells
              /\ Some(planned[k].scheduled_pool) = AssignPool(planned[k].item.medium_code)
              /\ planned[k].item.is_eligible
              /\ planned[k].item = df[planned[k].item.idx]
        /\ \A k \in 1..Len(backlog) :
              /\ backlog[k].item.is_eligible
              /\ backlog[k].item = df[backlog[k].item.idx]
        /\ [k \in 1..Len(planned) |-> planned[k].item.idx] = PlannedAttempts
        /\ \A j \in 1..Len(planned), k \in 1..Len(planned) :
              (planned[j].scheduled_pool = "pool_i" /\ planned[k].scheduled_pool = "pool_gen")
                  => k < j

\* a finished run that planned a record of the general pool and one of the
\* specialized pool, the latter first in the snapshot, and left one ineligible
C29_Witness ==
    /\ pc = "done"
    /\ \E c \in Cells : PlannedIn("pool_gen", c) # <<>>
    /\ \E k \in 1..Len(planned) :
          planned[k].scheduled_pool = "pool_i" /\ planned[k].item.idx = 1
    /\ \E i \in 1..Len(df) : ~df[i].is_eligible

(***************************************************************************)
(* Records without jars                                                    *)
(***************************************************************************)
\* the eligible rows of a pool with jar count 0
ZeroJarRows(rows) == {i \in rows : df[i].jars = 0}

ZeroJarsPlannedFirst(rows) ==
    \A i \in ZeroJarRows(rows) :
        /\ IsPlanned(i)
        /\ ~IsBacklogged(i)
        /\ PlannedCell(i) = 1
        /\ \E k \in 1..Len(planned) :
              planned[k].item.idx = i /\ Some(planned[k].scheduled_pool) = df[i].pool

ZeroJarsTakeNothing ==
    (PlaceStep /\ CurrentJars = 0) => capacities' = capacities

\* C30: when the loops have ended every eligible record of a pool with jar
\* count 0 (a missing total_jars included) is planned in Monday morning of
\* its pool, whatever capacity that cell had left, and is not in the backlog;
\* the step that places it changes no remaining capacity.
C30_ZeroJars ==
    /\ []((Scheduling /\ todo = <<>>) => ZeroJarsPlannedFirst(PoolRows))
    /\ [][ZeroJarsTakeNothing]_vars

====
